---- MODULE Spec2Model ----
(***************************************************************************)
(* dnshole: fetch allow/block lists concurrently, reconcile them into a    *)
(* sorted block list and rewrite a hosts file (src/main.go, lines 1-420).  *)
(*                                                                         *)
(* Strings are sequences of one-character strings, so that the library     *)
(* calls the program makes on them (strings.Index, strings.Fields,         *)
(* strings.HasPrefix, bufio.ScanLines, sort.Strings, fmt.Fprintln) are     *)
(* computed character by character.  Files are byte sequences.             *)
(***************************************************************************)
EXTENDS Integers, Sequences, FiniteSets, TLC

\* ------------------------------------------------------------------ bounds

\* Largest number of allowlist/blocklist directives of a configuration file.
MaxDescs == 2

\* The same, for the runs that also vary the output target.
MaxRunDescs == 1

\* Largest number of lines of a hosts file built from RawLines.
MaxHostsLines == 2

\* Largest value of the concurrency directive that is explored.
MaxConcurrency == 2

\* ------------------------------------------------------- program constants

dnsholeMarkerLine == <<"#"," ","=","=","=","="," ","d","n","s","h","o","l","e"," ","=","=","=","=">>

allow == 0

block == 1

\* The field index main gives the hosts file's own descriptor.
hostsFieldIndex == 2

\* ------------------------------------------------------------ Go strings

\* The bytes that occur in the model, in ascending byte order.
Bytes == <<"\t","\n","\r"," ","#","-",".","/","0","1","2","3","4","5",":","=",
           "D","G","M","S","T","_","a","b","c","d","e","f","g","h","i","k","l",
           "m","n","o","p","r","s","t","u","w","x","y">>

Ord(c) == CHOOSE k \in 1..Len(Bytes) : Bytes[k] = c

Min(a, b) == IF a < b THEN a ELSE b

\* a < b for Go strings: bytewise lexicographic order.
StringLess(a, b) ==
    \E k \in 1..(Min(Len(a), Len(b)) + 1) :
        /\ \A j \in 1..(k - 1) : a[j] = b[j]
        /\ \/ k > Len(a) /\ k <= Len(b)
           \/ k <= Len(a) /\ k <= Len(b) /\ Ord(a[k]) < Ord(b[k])

\* strings.HasPrefix
HasPrefix(s, prefix) ==
    /\ Len(s) >= Len(prefix)
    /\ SubSeq(s, 1, Len(prefix)) = prefix

\* strings.Contains
Contains(s, substr) ==
    \E k \in 0..(Len(s) - Len(substr)) : SubSeq(s, k + 1, k + Len(substr)) = substr

\* strings.Index(s, c) for a one-byte c: the 0-based index of the first c, or -1.
Index(s, c) ==
    IF \E k \in 1..Len(s) : s[k] = c
    THEN (CHOOSE k \in 1..Len(s) : s[k] = c /\ \A j \in 1..(k - 1) : s[j] # c) - 1
    ELSE -1

\* unicode.IsSpace on the bytes of the model.
IsSpace(c) == c \in {"\t", "\n", "\r", " "}

\* strings.Fields: the maximal runs of non-space bytes, in order.
RECURSIVE Fields(_)
Fields(s) ==
    IF s = <<>> THEN <<>>
    ELSE IF IsSpace(Head(s)) THEN Fields(Tail(s))
    ELSE LET n == IF \E k \in 1..Len(s) : IsSpace(s[k])
                  THEN (CHOOSE k \in 1..Len(s) :
                           IsSpace(s[k]) /\ \A j \in 1..(k - 1) : ~IsSpace(s[j])) - 1
                  ELSE Len(s)
         IN  <<SubSeq(s, 1, n)>> \o Fields(SubSeq(s, n + 1, Len(s)))

\* bufio dropCR: drop one trailing carriage return.
dropCR(data) ==
    IF Len(data) > 0 /\ data[Len(data)] = "\r"
    THEN SubSeq(data, 1, Len(data) - 1)
    ELSE data

\* bufio.ScanLines applied until the end of data: the tokens of a Scanner.
RECURSIVE ScanLines(_)
ScanLines(data) ==
    IF data = <<>> THEN <<>>
    ELSE LET i == Index(data, "\n")
         IN  IF i >= 0
             THEN <<dropCR(SubSeq(data, 1, i))>> \o ScanLines(SubSeq(data, i + 2, Len(data)))
             ELSE <<dropCR(data)>>

\* fmt.Fprintln of one string: the bytes written.
Fprintln(s) == s \o <<"\n">>

\* sort.Strings: ascending by StringLess (insertion into a sorted sequence).
RECURSIVE SortStrings(_)
SortStrings(a) ==
    IF a = <<>> THEN <<>>
    ELSE LET rest == SortStrings(Tail(a))
             x == Head(a)
             n == Cardinality({k \in 1..Len(rest) : ~StringLess(x, rest[k])})
         IN  SubSeq(rest, 1, n) \o <<x>> \o SubSeq(rest, n + 1, Len(rest))

\* blankRE = `^\s*$`
blankRE(s) == \A k \in 1..Len(s) : s[k] \in {"\t", "\n", "\r", " "}

\* ------------------------------------------------------- line classifier

\* parseDomains returns the domain names from field fieldIndex on a line.
parseDomains(line, fieldIndex) ==
    LET i == Index(line, "#")
        l == IF i >= 0 THEN SubSeq(line, 1, i) ELSE line
        fields == Fields(l)
    IN  IF fieldIndex >= Len(fields) THEN <<>>
        ELSE SubSeq(fields, fieldIndex + 1, Len(fields))

\* ------------------------------------------------------------ environment

hostsFilename == <<"h","o","s","t","s">>

linkFilename == <<"l","i","n","k">>

outFilename == <<"o","u","t">>

stdoutName == <<"-">>

\* filepath.Join(filepath.Dir(hostsFilename), "dnshole_tmp_hosts"); the
\* hosts file name has no directory part.
tmpFilename == <<"d","n","s","h","o","l","e","_","t","m","p","_","h","o","s","t","s">>

adsFilename == <<"a","d","s">>

listURL == <<"h","t","t","p",":","/","/","x">>

Paths == {hostsFilename, linkFilename, outFilename, stdoutName, tmpFilename, adsFilename}

\* No directory entry.
NoFile == "nofile"

\* The hosts file "1 a\n".
hostsEntry == <<"1"," ","a","\n">>

\* A hosts file with a CRLF line, a blank line, an earlier generated section
\* and a three-field line after it:
\* "1 b a\r\n\n# ==== dnshole ==== x\n0.0.0.0 b\n1 x ab\n".
hostsGenerated ==
    <<"1"," ","b"," ","a","\r","\n","\n">> \o dnsholeMarkerLine
        \o <<" ","x","\n","0",".","0",".","0",".","0"," ","b","\n","1"," ","x"," ","a","b","\n">>

\* A hosts file with a comment and an unterminated last line: "# c a\n1 a#b".
hostsComment == <<"#"," ","c"," ","a","\n","1"," ","a","#","b">>

HostsFiles == { hostsEntry, hostsGenerated, hostsComment }

\* The lines hosts files are built from: an entry, a blank line, an empty
\* line, a marker line.
RawLines ==
    { <<"1"," ","a">>, <<" ">>, <<>>, dnsholeMarkerLine \o <<" ","x">> }

\* A line and its line ending, LF or CRLF.
TerminatedLines == { l \o t : l \in RawLines, t \in { <<"\n">>, <<"\r","\n">> } }

RECURSIVE Concat(_)
Concat(ss) == IF ss = <<>> THEN <<>> ELSE Head(ss) \o Concat(Tail(ss))

\* The local list "a\nab\n" (domain in field 1 as written in the config).
adsFile == <<"a","\n","a","b","\n">>

\* The remote list "0 b a\n" (domains from field 2 as written in the config).
listBody == <<"0"," ","b"," ","a","\n">>

oldOutFile == <<"o","l","d","\n">>

\* What client.Get can yield for listURL: a transport error, or a response.
NoResponse == [err |-> TRUE, status |-> "none", body |-> <<>>]

Responses ==
    { NoResponse,
      [err |-> FALSE, status |-> "404", body |-> <<>>],
      [err |-> FALSE, status |-> "200", body |-> listBody] }

\* time.Now().Format(" Monday 2006-01-02 15:04:05 MST"), two instants.
Times == { <<" ","M","o","n","d","a","y"," ","2","0","2","0","-","0","5","-","0","4",
             " ","1","3",":","2","2",":","0","1"," ","M","S","T">>,
           <<" ","M","o","n","d","a","y"," ","2","0","2","0","-","0","5","-","0","4",
             " ","1","3",":","2","2",":","0","2"," ","M","S","T">> }

\* ------------------------------------------------------------ configuration

\* appendListDesc: the field index is written origin 1 and kept origin 0.
appendListDesc(allowBlock, field, url) ==
    [url |-> url, fieldIndex |-> field - 1, allowBlock |-> allowBlock]

\* The allowlist/blocklist directives a configuration file of the model holds.
Directives ==
    { appendListDesc(r, 1, adsFilename) : r \in {allow, block} }
        \cup { appendListDesc(r, 2, listURL) : r \in {allow, block} }

SeqsUpTo(S, n) == UNION { [1..k -> S] : k \in 0..n }

\* The files of at most n terminated lines, and those with an unterminated
\* line after them.
HostsFilesUpTo(n) ==
    { Concat(f) \o last : f \in SeqsUpTo(TerminatedLines, n),
                          last \in { <<>>, <<"1"," ","a">> } }

\* main: allowlist the domains already in the hosts file.
hostsListDesc == [url |-> hostsFilename, fieldIndex |-> hostsFieldIndex, allowBlock |-> allow]

\* -------------------------------------------------------------------- state

VARIABLES
    concurrency,       \* the package variable set by the concurrency directive
    listDescs,         \* the package variable listDescs
    outputFilename,    \* the package variable outputFilename
    dir,               \* file system: path -> inode, or NoFile
    disk,              \* file system: inode -> bytes
    web,               \* the response of listURL's server
    startDir,          \* dir when the program started (never changes)
    startDisk,         \* disk when the program started (never changes)
    pc,                \* where the main goroutine is
    spawned,           \* callConcurrently: i of the spawning loop
    received,          \* callConcurrently: i of the waiting loop
    semaphore,         \* callConcurrently: number of elements buffered in semaphore
    closed,            \* callConcurrently: the deferred function has closed both channels
    wpc,               \* where each worker goroutine is
    wi,                \* each worker goroutine's parameter i (origin 1 here)
    fcnCalls,          \* how many times fcn has been called for each index
    wdomains,          \* each worker's local variable domains
    wslice,            \* each worker's read of the list it appends to
    allowDomainsList,  \* getBlocklistDomains' local, shared by the workers
    blockDomainsList,  \* getBlocklistDomains' local, shared by the workers
    domains,           \* main's local variable domains
    stderr,            \* urls a warning was printed for
    stdout,            \* bytes written to standard output
    exitCode,          \* the process' exit status "0", "1" or "2", or "running"
    sameFileMode,      \* main took the branch that writes to tmpFilename
    hostLines,         \* createNewHostsFile: lines its scanner has yet to yield
    lastLine,          \* createNewHostsFile: lastLine
    newHost,           \* createNewHostsFile: inode written to, "stdout", or NoFile
    nextDomain,        \* createNewHostsFile: index of the domains loop
    renamed            \* outcome of os.Rename: "none", "ok" or "failed"

vars == <<concurrency, listDescs, outputFilename, dir, disk, web, startDir, startDisk, pc, spawned,
          received, semaphore, closed, wpc, wi, fcnCalls, wdomains, wslice,
          allowDomainsList, blockDomainsList, domains, stderr, stdout, exitCode, sameFileMode,
          hostLines, lastLine, newHost, nextDomain, renamed>>

dispatchVars == <<spawned, received, semaphore, closed, wpc, wi, fcnCalls, wdomains,
                  wslice, allowDomainsList, blockDomainsList>>

writerVars == <<sameFileMode, hostLines, lastLine, newHost, nextDomain, renamed, stdout>>

envVars == <<dir, disk, web, startDir, startDisk>>

configVars == <<concurrency, listDescs, outputFilename>>

\* The most workers a run has: one per directive and one for the hosts file.
Workers == 1..((IF MaxDescs > MaxRunDescs THEN MaxDescs ELSE MaxRunDescs) + 1)

\* Inodes: the files that exist at startup, and the one os.Create makes.
hostsInode == "inode_hosts"

adsInode == "inode_ads"

outInode == "inode_out"

newInode == "inode_new"

\* The ways the -output flag and the files it names can stand at startup:
\* unset (the hosts file itself), another name of the hosts file, an
\* existing other file, a file yet to be created, standard output.
OutputCases ==
    { [output |-> hostsFilename, link |-> NoFile, out |-> NoFile],
      [output |-> linkFilename, link |-> hostsInode, out |-> NoFile],
      [output |-> outFilename, link |-> NoFile, out |-> outInode],
      [output |-> outFilename, link |-> NoFile, out |-> NoFile],
      [output |-> stdoutName, link |-> NoFile, out |-> NoFile] }

\* Some directive names url.
Uses(descs, url) == \E k \in DOMAIN descs : descs[k].url = url

\* The state with main at start and nothing done since readConfigFile
\* returned, for the given values of the concurrency directive, lists of
\* directives, output cases, hosts files, states of the local list (its inode
\* or NoFile) and responses.  A source no directive names is absent.
InitAt(start, concurrencies, configs, outputCases, hostsFiles, adsStates, responses) ==
    /\ concurrency \in concurrencies
    /\ listDescs \in configs
    /\ \E oc \in outputCases, hosts \in hostsFiles,
          ads \in (IF Uses(listDescs, adsFilename) THEN adsStates ELSE {NoFile}) :
          /\ outputFilename = oc.output
          /\ dir = [p \in Paths |->
                      CASE p = hostsFilename -> hostsInode
                        [] p = linkFilename -> oc.link
                        [] p = outFilename -> oc.out
                        [] p = adsFilename -> ads
                        [] OTHER -> NoFile]
          /\ disk = [n \in {hostsInode} \cup ({ads, oc.out} \ {NoFile}) |->
                      CASE n = hostsInode -> hosts
                        [] n = adsInode -> adsFile
                        [] OTHER -> oldOutFile]
    /\ startDir = dir
    /\ startDisk = disk
    /\ web \in (IF Uses(listDescs, listURL) THEN responses ELSE {NoResponse})
    /\ pc = start
    /\ spawned = 0
    /\ received = 0
    /\ semaphore = 0
    /\ closed = FALSE
    /\ wpc = [w \in Workers |-> "none"]
    /\ wi = [w \in Workers |-> 0]
    /\ fcnCalls = [w \in Workers |-> 0]
    /\ wdomains = [w \in Workers |-> <<>>]
    /\ wslice = [w \in Workers |-> <<>>]
    /\ allowDomainsList = <<>>
    /\ blockDomainsList = <<>>
    /\ domains = <<>>
    /\ stderr = {}
    /\ stdout = <<>>
    /\ exitCode = "running"
    /\ sameFileMode = FALSE
    /\ hostLines = <<>>
    /\ lastLine = <<>>
    /\ newHost = NoFile
    /\ nextDomain = 1
    /\ renamed = "none"

\* The state when readConfigFile has returned.
InitOf(concurrencies, configs, outputCases, hostsFiles, adsStates, responses) ==
    InitAt("main408", concurrencies, configs, outputCases, hostsFiles, adsStates, responses)

Concurrencies == -1..MaxConcurrency

\* The configurations of one directive for the remote list and one for the
\* local list, in either order.
RemoteAndLocal ==
    UNION { { <<d, e>>, <<e, d>> } :
            d \in { x \in Directives : x.url = listURL },
            e \in { x \in Directives : x.url = adsFilename } }

\* Runs of every output case, with at most MaxRunDescs directives or with
\* one remote and one local list.
Init ==
    InitOf(Concurrencies, SeqsUpTo(Directives, MaxRunDescs) \cup RemoteAndLocal,
           OutputCases, HostsFiles, {NoFile, adsInode}, Responses)

\* Runs on the hosts file itself, with at most MaxDescs directives.
InitConfigs ==
    InitOf(Concurrencies, SeqsUpTo(Directives, MaxDescs),
           { oc \in OutputCases : oc.output = hostsFilename },
           { hostsEntry, hostsGenerated },
           {NoFile, adsInode}, { r \in Responses : r.err \/ r.status = "200" })

\* Runs of the configurations "blocklist 1 ads" and "blocklist 2 http://x"
\* on every hosts file of at most MaxHostsLines terminated lines.
InitHosts ==
    InitOf({-1, 0, 1},
           { <<appendListDesc(block, 1, adsFilename)>>, <<appendListDesc(block, 2, listURL)>> },
           { oc \in OutputCases : oc.link = NoFile /\ oc.out = NoFile },
           HostsFilesUpTo(MaxHostsLines), {adsInode}, {r \in Responses : ~r.err /\ r.status = "200"})

\* The process is alive: log.Fatal, a panic and main's return end every goroutine.
Alive == exitCode = "running"

\* log.Fatal(err): print and os.Exit(1); where names the call that failed.
Fatal(where) ==
    /\ exitCode' = "1"
    /\ pc' = where

\* ---------------------------------------------------------------------- main

\* main, line 408: the hosts file is registered as the last allowlist.
RegisterHosts ==
    /\ Alive /\ pc = "main408"
    /\ listDescs' = Append(listDescs, hostsListDesc)
    /\ pc' = "makechan"
    /\ UNCHANGED <<concurrency, outputFilename, envVars, dispatchVars, domains,
                   stderr, exitCode, writerVars>>

\* ---------------------------------------------------------- callConcurrently

count == Len(listDescs)

\* make(chan struct{}, concurrency) and make(chan struct{}).
MakeChans ==
    /\ Alive /\ pc = "makechan"
    /\ concurrency >= 0
    /\ pc' = "call"
    /\ UNCHANGED <<configVars, envVars, dispatchVars, domains, stderr, exitCode,
                   writerVars>>

\* make(chan struct{}, concurrency) panics for a negative size.
MakeChanPanics ==
    /\ Alive /\ pc = "makechan"
    /\ concurrency < 0
    /\ pc' = "panic"
    /\ exitCode' = "2"
    /\ UNCHANGED <<configVars, envVars, dispatchVars, domains, stderr, writerVars>>

\* for i := 0; i < count; i += 1 { go func(i int) {...}(i) }
Spawn ==
    /\ Alive /\ pc = "call"
    /\ spawned < count
    /\ spawned' = spawned + 1
    /\ wpc' = [wpc EXCEPT ![spawned + 1] = "send"]
    /\ wi' = [wi EXCEPT ![spawned + 1] = spawned + 1]
    /\ UNCHANGED <<configVars, envVars, pc, received, semaphore, closed, fcnCalls,
                   wdomains, wslice, allowDomainsList, blockDomainsList, domains,
                   stderr, exitCode, writerVars>>

\* Acquire without the wait for room in the channel.
AcquireUnbounded(w) ==
    /\ Alive /\ wpc[w] = "send"
    /\ ~closed
    /\ semaphore' = semaphore + 1
    /\ wpc' = [wpc EXCEPT ![w] = "fcn"]
    /\ fcnCalls' = [fcnCalls EXCEPT ![wi[w]] = @ + 1]
    /\ UNCHANGED <<configVars, envVars, pc, spawned, received, closed, wi, wdomains,
                   wslice, allowDomainsList, blockDomainsList, domains, stderr,
                   exitCode, writerVars>>

\* semaphore <- struct{}{}: a send into a buffered channel that has room;
\* fcn(i) is then called.
Acquire(w) ==
    /\ Alive /\ wpc[w] = "send"
    /\ ~closed
    /\ semaphore < concurrency
    /\ semaphore' = semaphore + 1
    /\ wpc' = [wpc EXCEPT ![w] = "fcn"]
    /\ fcnCalls' = [fcnCalls EXCEPT ![wi[w]] = @ + 1]
    /\ UNCHANGED <<configVars, envVars, pc, spawned, received, closed, wi, wdomains,
                   wslice, allowDomainsList, blockDomainsList, domains, stderr,
                   exitCode, writerVars>>

\* The scanning loop without the break at the marker line.
RECURSIVE scanDomainsAll(_, _, _)
scanDomainsAll(lines, index, wb) ==
    IF lines = <<>> THEN <<>>
    ELSE parseDomains(Head(lines), index) \o scanDomainsAll(Tail(lines), index, wb)

\* The scanning loop of the task function: the domains of the lines read, an
\* allowlist being read up to the first line that starts with the marker.
RECURSIVE scanDomains(_, _, _)
scanDomains(lines, index, wb) ==
    IF lines = <<>> THEN <<>>
    ELSE IF wb = allow /\ HasPrefix(Head(lines), dnsholeMarkerLine) THEN <<>>
    ELSE parseDomains(Head(lines), index) \o scanDomains(Tail(lines), index, wb)

\* The list a worker of role wb appends to.
DomainsListOf(wb) == IF wb = allow THEN allowDomainsList ELSE blockDomainsList

\* The task function up to its append: the source is read and parsed, and
\* the append statement reads the shared slice it will extend.
Scanned(w, reader) ==
    /\ wdomains' = [wdomains EXCEPT ![w] =
          scanDomains(ScanLines(reader), listDescs[wi[w]].fieldIndex, listDescs[wi[w]].allowBlock)]
    /\ wslice' = [wslice EXCEPT ![w] = DomainsListOf(listDescs[wi[w]].allowBlock)]
    /\ wpc' = [wpc EXCEPT ![w] = "append"]
    /\ UNCHANGED <<pc, exitCode, stderr>>

\* FetchLocal with an open failure handled like a failed GET.
FetchLocalWarns(w) ==
    /\ Alive /\ wpc[w] = "fcn"
    /\ ~Contains(listDescs[wi[w]].url, <<":", "/", "/">>)
    /\ IF dir[listDescs[wi[w]].url] = NoFile
       THEN /\ stderr' = stderr \cup {listDescs[wi[w]].url}
            /\ wpc' = [wpc EXCEPT ![w] = "done"]
            /\ UNCHANGED <<pc, exitCode, wdomains, wslice>>
       ELSE Scanned(w, disk[dir[listDescs[wi[w]].url]])
    /\ UNCHANGED <<configVars, envVars, spawned, received, semaphore, closed, wi,
                   fcnCalls, allowDomainsList, blockDomainsList, domains, writerVars>>

\* os.Open of a local source: fatal when the file cannot be opened.
FetchLocal(w) ==
    /\ Alive /\ wpc[w] = "fcn"
    /\ ~Contains(listDescs[wi[w]].url, <<":", "/", "/">>)
    /\ IF dir[listDescs[wi[w]].url] = NoFile
       THEN Fatal("fatal_open") /\ UNCHANGED <<wpc, wdomains, wslice, stderr>>
       ELSE Scanned(w, disk[dir[listDescs[wi[w]].url]])
    /\ UNCHANGED <<configVars, envVars, spawned, received, semaphore, closed, wi,
                   fcnCalls, allowDomainsList, blockDomainsList, domains, writerVars>>

\* FetchRemote with a failed GET handled like a failed open.
FetchRemoteFatal(w) ==
    /\ Alive /\ wpc[w] = "fcn"
    /\ Contains(listDescs[wi[w]].url, <<":", "/", "/">>)
    /\ IF web.err \/ web.status # "200"
       THEN Fatal("fatal_open") /\ UNCHANGED <<wpc, wdomains, wslice, stderr>>
       ELSE Scanned(w, web.body)
    /\ UNCHANGED <<configVars, envVars, spawned, received, semaphore, closed, wi,
                   fcnCalls, allowDomainsList, blockDomainsList, domains, writerVars>>

\* client.Get of a remote source: a transport error or a status other than
\* 200 prints a warning and returns from the task function.
FetchRemote(w) ==
    /\ Alive /\ wpc[w] = "fcn"
    /\ Contains(listDescs[wi[w]].url, <<":", "/", "/">>)
    /\ IF web.err \/ web.status # "200"
       THEN /\ stderr' = stderr \cup {listDescs[wi[w]].url}
            /\ wpc' = [wpc EXCEPT ![w] = "done"]
            /\ UNCHANGED <<pc, exitCode, wdomains, wslice>>
       ELSE Scanned(w, web.body)
    /\ UNCHANGED <<configVars, envVars, spawned, received, semaphore, closed, wi,
                   fcnCalls, allowDomainsList, blockDomainsList, domains, writerVars>>

\* The rest of the append statement: the slice read earlier, extended by the
\* worker's domains, is stored into the shared variable, and the task
\* function returns (its locals are gone).  No lock orders two workers'
\* appends, so a store can undo one made since the read.
appendStore(w) == Append(wslice[w], wdomains[w])

AppendDomains(w) ==
    /\ Alive /\ wpc[w] = "append"
    /\ IF listDescs[wi[w]].allowBlock = allow
       THEN /\ allowDomainsList' = appendStore(w)
            /\ UNCHANGED blockDomainsList
       ELSE /\ blockDomainsList' = appendStore(w)
            /\ UNCHANGED allowDomainsList
    /\ wpc' = [wpc EXCEPT ![w] = "done"]
    /\ wdomains' = [wdomains EXCEPT ![w] = <<>>]
    /\ wslice' = [wslice EXCEPT ![w] = <<>>]
    /\ UNCHANGED <<configVars, envVars, pc, spawned, received, semaphore, closed, wi,
                   fcnCalls, domains, stderr, exitCode, writerVars>>

\* The waiting loop is entered when every goroutine has been started.
Waiting == pc = "call" /\ spawned = count

\* done <- struct{}{} meets <-done: done is unbuffered, so the worker's send
\* and an iteration of the waiting loop happen together.
Done(w) ==
    /\ Alive /\ wpc[w] = "done"
    /\ Waiting /\ received < count
    /\ ~closed
    /\ received' = received + 1
    /\ wpc' = [wpc EXCEPT ![w] = "recv"]
    /\ UNCHANGED <<configVars, envVars, pc, spawned, semaphore, closed, wi, fcnCalls,
                   wdomains, wslice, allowDomainsList, blockDomainsList, domains, stderr,
                   exitCode, writerVars>>

\* Release for a receive that waits while the channel is closed.
ReleaseUnlessClosed(w) ==
    /\ Alive /\ wpc[w] = "recv"
    /\ ~closed
    /\ semaphore > 0
    /\ semaphore' = semaphore - 1
    /\ wpc' = [wpc EXCEPT ![w] = "exit"]
    /\ UNCHANGED <<configVars, envVars, pc, spawned, received, closed, wi, fcnCalls,
                   wdomains, wslice, allowDomainsList, blockDomainsList, domains, stderr,
                   exitCode, writerVars>>

\* <-semaphore, after which the goroutine ends.
Release(w) ==
    /\ Alive /\ wpc[w] = "recv"
    /\ semaphore > 0
    /\ semaphore' = semaphore - 1
    /\ wpc' = [wpc EXCEPT ![w] = "exit"]
    /\ UNCHANGED <<configVars, envVars, pc, spawned, received, closed, wi, fcnCalls,
                   wdomains, wslice, allowDomainsList, blockDomainsList, domains, stderr,
                   exitCode, writerVars>>

\* A waiting loop that makes one iteration too few.
waitCountShort == count - 1

\* How many iterations the waiting loop makes before callConcurrently returns.
waitCount == count

\* The waiting loop has ended: the deferred function closes both channels and
\* callConcurrently returns to getBlocklistDomains.
Return ==
    /\ Alive /\ Waiting
    /\ received = waitCount
    /\ closed' = TRUE
    /\ pc' = "reconcile"
    /\ UNCHANGED <<configVars, envVars, spawned, received, semaphore, wpc, wi,
                   fcnCalls, wdomains, wslice, allowDomainsList, blockDomainsList,
                   domains, stderr, exitCode, writerVars>>

\* The Go runtime ends the process ("all goroutines are asleep - deadlock!")
\* when main waits on done and no worker can ever pass its semaphore send.
RuntimeDeadlock ==
    /\ Alive /\ Waiting
    /\ received < count
    /\ semaphore >= concurrency
    /\ \A w \in 1..count : wpc[w] = "send"
    /\ pc' = "deadlock"
    /\ exitCode' = "2"
    /\ UNCHANGED <<configVars, envVars, dispatchVars, domains, stderr, writerVars>>

\* ------------------------------------------------------------- reconciler

Range(f) == { f[k] : k \in DOMAIN f }

\* Every domain of every list of a list of lists.
DomainsOf(lists) == UNION { Range(l) : l \in Range(lists) }

\* allowDomainMap: the keys set to true.
allowDomainMap(allowLists) == DomainsOf(allowLists)

\* blockDomainMap filled without the look-up in allowDomainMap.
blockDomainMapUnfiltered(allowLists, blockLists) == DomainsOf(blockLists)

\* blockDomainMap: the keys set to true.
blockDomainMap(allowLists, blockLists) ==
    { d \in DomainsOf(blockLists) : d \notin allowDomainMap(allowLists) }

\* The orders in which ranging over a map can yield its keys.
MapOrders(m) ==
    { keys \in [1..Cardinality(m) -> m] :
        \A j, k \in 1..Cardinality(m) : j # k => keys[j] # keys[k] }

\* blockDomains as returned: the keys, appended in some order, then sorted.
blockDomainsOf(keys) == SortStrings(keys)

\* getBlocklistDomains after callConcurrently has returned, and its return
\* to main.
Reconcile ==
    /\ Alive /\ pc = "reconcile"
    /\ \E keys \in MapOrders(blockDomainMap(allowDomainsList, blockDomainsList)) :
          domains' = blockDomainsOf(keys)
    /\ pc' = "main412"
    /\ UNCHANGED <<configVars, envVars, dispatchVars, stderr, exitCode, writerVars>>

\* ----------------------------------------------------------------- rewriter

\* sameFile: both names can be stat'ed and name one file.
sameFile(filenameA, filenameB) ==
    /\ dir[filenameA] # NoFile
    /\ dir[filenameB] # NoFile
    /\ dir[filenameA] = dir[filenameB]

\* main, lines 412-417: the output goes to tmpFilename when the output
\* file is the hosts file.
ChooseOutput ==
    /\ Alive /\ pc = "main412"
    /\ IF ~sameFile(hostsFilename, outputFilename)
       THEN UNCHANGED <<outputFilename, sameFileMode>>
       ELSE /\ outputFilename' = tmpFilename
            /\ sameFileMode' = TRUE
    /\ pc' = "create"
    /\ UNCHANGED <<concurrency, listDescs, envVars, dispatchVars, domains, stderr,
                   exitCode, hostLines, lastLine, newHost, nextDomain, renamed, stdout>>

\* createNewHostsFile, lines 220-238: the hosts file is opened, the output is
\* standard output or a file created empty (truncated when it exists).
Create ==
    /\ Alive /\ pc = "create"
    /\ dir[hostsFilename] # NoFile
    /\ IF outputFilename = stdoutName
       THEN /\ newHost' = "stdout"
            /\ UNCHANGED <<dir, disk>>
       ELSE IF dir[outputFilename] = NoFile
       THEN /\ newHost' = newInode
            /\ dir' = [dir EXCEPT ![outputFilename] = newInode]
            /\ disk' = [n \in DOMAIN disk \cup {newInode} |->
                          IF n = newInode THEN <<>> ELSE disk[n]]
       ELSE /\ newHost' = dir[outputFilename]
            /\ disk' = [disk EXCEPT ![dir[outputFilename]] = <<>>]
            /\ UNCHANGED dir
    /\ hostLines' = ScanLines(disk'[dir[hostsFilename]])
    /\ pc' = "copy"
    /\ UNCHANGED <<configVars, web, startDir, startDisk, dispatchVars, domains, stderr, exitCode,
                   sameFileMode, lastLine, nextDomain, renamed, stdout>>

\* os.Create fails.
CreateFails ==
    /\ Alive /\ pc = "create"
    /\ outputFilename # stdoutName
    /\ Fatal("fatal_create")
    /\ UNCHANGED <<configVars, envVars, dispatchVars, domains, stderr, writerVars>>

\* A write to newHost.
Write(bytes) ==
    IF newHost = "stdout"
    THEN /\ stdout' = stdout \o bytes
         /\ UNCHANGED disk
    ELSE /\ disk' = [disk EXCEPT ![newHost] = @ \o bytes]
         /\ UNCHANGED stdout

\* The copying loop stops at the end of the file or at the marker line.
CopyStops ==
    IF Len(hostLines) = 0 THEN TRUE ELSE HasPrefix(Head(hostLines), dnsholeMarkerLine)

\* One iteration of the copying loop, lines 239-246.
CopyLine ==
    /\ Alive /\ pc = "copy"
    /\ ~CopyStops
    /\ Write(Fprintln(Head(hostLines)))
    /\ lastLine' = Head(hostLines)
    /\ hostLines' = Tail(hostLines)
    /\ UNCHANGED <<configVars, dir, web, startDir, startDisk, pc, dispatchVars, domains, stderr, exitCode,
                   sameFileMode, newHost, nextDomain, renamed>>

\* The four lines printed by lines 256-260.
headerLines(timeStr) ==
    << dnsholeMarkerLine \o <<" ","D","o"," ","n","o","t"," ","e","d","i","t"," ",
           "t","h","i","s"," ","l","i","n","e"," ","o","r"," ","f","o","l","l","o","w","i","n","g",
           " ","l","i","n","e","s",".">>,
       <<"#"," ","T","h","e","y"," ","a","r","e"," ","a","u","t","o","m","a","t","i",
           "c","a","l","l","y"," ","g","e","n","e","r","a","t","e","d"," ","b","y"," ","d","n",
           "s","h","o","l","e",".">>,
       <<"#"," ","G","e","n","e","r","a","t","e","d">> \o timeStr,
       <<>> >>

\* generatedHeader with the blank line written whatever lastLine is.
generatedHeaderAlwaysBlank(last, timeStr) ==
    Fprintln(<<>>)
    \o Fprintln(headerLines(timeStr)[1])
    \o Fprintln(headerLines(timeStr)[2])
    \o Fprintln(headerLines(timeStr)[3])
    \o Fprintln(headerLines(timeStr)[4])

\* What lines 252-260 write: a blank line unless lastLine is blank, and the
\* four header lines.
generatedHeader(last, timeStr) ==
    (IF ~blankRE(last) THEN Fprintln(<<>>) ELSE <<>>)
    \o Fprintln(headerLines(timeStr)[1])
    \o Fprintln(headerLines(timeStr)[2])
    \o Fprintln(headerLines(timeStr)[3])
    \o Fprintln(headerLines(timeStr)[4])

\* The copying loop has ended; lines 252-260 are written.
EmitHeader ==
    /\ Alive /\ pc = "copy"
    /\ CopyStops
    /\ \E timeStr \in Times : Write(generatedHeader(lastLine, timeStr))
    /\ pc' = "domains"
    /\ UNCHANGED <<configVars, dir, web, startDir, startDisk, dispatchVars, domains, stderr, exitCode,
                   sameFileMode, hostLines, lastLine, newHost, nextDomain, renamed>>

\* fmt.Fprintf(newHost, "0.0.0.0 %s\n", domain)
domainLine(domain) == <<"0",".","0",".","0",".","0"," ">> \o domain \o <<"\n">>

\* One iteration of the domains loop, lines 262-264.
EmitDomain ==
    /\ Alive /\ pc = "domains"
    /\ nextDomain <= Len(domains)
    /\ Write(domainLine(domains[nextDomain]))
    /\ nextDomain' = nextDomain + 1
    /\ UNCHANGED <<configVars, dir, web, startDir, startDisk, pc, dispatchVars, domains, stderr, exitCode,
                   sameFileMode, hostLines, lastLine, newHost, renamed>>

\* newHost.Close() succeeds and createNewHostsFile returns; main returns
\* unless it has a rename to make.
Close ==
    /\ Alive /\ pc = "domains"
    /\ nextDomain > Len(domains)
    /\ IF sameFileMode
       THEN pc' = "rename" /\ UNCHANGED exitCode
       ELSE pc' = "exit" /\ exitCode' = "0"
    /\ UNCHANGED <<configVars, envVars, dispatchVars, domains, stderr, writerVars>>

\* newHost.Close() fails.
CloseFails ==
    /\ Alive /\ pc = "domains"
    /\ nextDomain > Len(domains)
    /\ Fatal("fatal_close")
    /\ UNCHANGED <<configVars, envVars, dispatchVars, domains, stderr, writerVars>>

\* os.Rename(outputFilename, hostsFilename) succeeds; main returns.
Rename ==
    /\ Alive /\ pc = "rename"
    /\ dir' = [dir EXCEPT ![hostsFilename] = dir[outputFilename],
                          ![outputFilename] = NoFile]
    /\ disk' = [n \in { dir'[p] : p \in Paths } \ {NoFile} |-> disk[n]]
    /\ renamed' = "ok"
    /\ pc' = "exit"
    /\ exitCode' = "0"
    /\ UNCHANGED <<configVars, web, startDir, startDisk, dispatchVars, domains, stderr, sameFileMode,
                   hostLines, lastLine, newHost, nextDomain, stdout>>

\* os.Rename fails; its error is not looked at and main returns.
RenameFails ==
    /\ Alive /\ pc = "rename"
    /\ renamed' = "failed"
    /\ pc' = "exit"
    /\ exitCode' = "0"
    /\ UNCHANGED <<configVars, envVars, dispatchVars, domains, stderr, sameFileMode,
                   hostLines, lastLine, newHost, nextDomain, stdout>>

\* ---------------------------------------------- the rewrite as a function

\* The lines the copying loop copies: those before the first marker line.
RECURSIVE copiedLines(_)
copiedLines(lines) ==
    IF lines = <<>> THEN <<>>
    ELSE IF HasPrefix(Head(lines), dnsholeMarkerLine) THEN <<>>
    ELSE <<Head(lines)>> \o copiedLines(Tail(lines))

\* createNewHostsFile as a function of the hosts file's bytes, the block
\* list and the time: the bytes it writes when no call fails.
createNewHostsFile(input, blockList, timeStr) ==
    LET copied == copiedLines(ScanLines(input))
        last == IF copied = <<>> THEN <<>> ELSE copied[Len(copied)]
    IN  Concat([k \in 1..Len(copied) |-> Fprintln(copied[k])])
        \o generatedHeader(last, timeStr)
        \o Concat([k \in 1..Len(blockList) |-> domainLine(blockList[k])])

\* The block lists of earlier runs: those of the local and of the remote list.
earlierBlockLists ==
    { << <<"a">>, <<"a","b">> >>, << <<"a">>, <<"b">> >> }

\* The hosts files an earlier run has written, at either instant, from the
\* hosts files of at most n lines.
RewrittenHostsFiles(n) ==
    { createNewHostsFile(h, d, t) :
        h \in HostsFilesUpTo(n), d \in earlierBlockLists, t \in Times }

\* ------------------------------------------------------------ failed writes

\* What a write that returns an error can have written: none of the bytes, or
\* the first of them.
ShortWrites(bytes) ==
    { SubSeq(bytes, 1, n) : n \in 0..Min(1, Len(bytes) - 1) }

\* An iteration of the copying loop whose fmt.Fprintln fails: the error is not
\* looked at (line 244) and the loop goes on.
CopyLineWriteFails ==
    /\ Alive /\ pc = "copy"
    /\ ~CopyStops
    /\ \E part \in ShortWrites(Fprintln(Head(hostLines))) : Write(part)
    /\ lastLine' = Head(hostLines)
    /\ hostLines' = Tail(hostLines)
    /\ UNCHANGED <<configVars, dir, web, startDir, startDisk, pc, dispatchVars, domains, stderr, exitCode,
                   sameFileMode, newHost, nextDomain, renamed>>

\* Lines 252-260 with writes that fail from some point on: the errors are not
\* looked at.
EmitHeaderWriteFails ==
    /\ Alive /\ pc = "copy"
    /\ CopyStops
    /\ \E timeStr \in Times :
          \E part \in ShortWrites(generatedHeader(lastLine, timeStr)) : Write(part)
    /\ pc' = "domains"
    /\ UNCHANGED <<configVars, dir, web, startDir, startDisk, dispatchVars, domains, stderr, exitCode,
                   sameFileMode, hostLines, lastLine, newHost, nextDomain, renamed>>

\* An iteration of the domains loop whose fmt.Fprintf fails: the error is not
\* looked at (line 263).
EmitDomainWriteFails ==
    /\ Alive /\ pc = "domains"
    /\ nextDomain <= Len(domains)
    /\ \E part \in ShortWrites(domainLine(domains[nextDomain])) : Write(part)
    /\ nextDomain' = nextDomain + 1
    /\ UNCHANGED <<configVars, dir, web, startDir, startDisk, pc, dispatchVars, domains, stderr, exitCode,
                   sameFileMode, hostLines, lastLine, newHost, renamed>>

\* ------------------------------------------------------------ specification

\* main up to the return of getBlocklistDomains.
NextFetch ==
    \/ RegisterHosts
    \/ MakeChans
    \/ MakeChanPanics
    \/ Spawn
    \/ \E w \in Workers : Acquire(w)
    \/ \E w \in Workers : FetchLocal(w)
    \/ \E w \in Workers : FetchRemote(w)
    \/ \E w \in Workers : AppendDomains(w)
    \/ \E w \in Workers : Done(w)
    \/ \E w \in Workers : Release(w)
    \/ Return
    \/ RuntimeDeadlock
    \/ Reconcile

\* main from line 412 on.
NextWrite ==
    \/ ChooseOutput
    \/ Create
    \/ CreateFails
    \/ CopyLine
    \/ EmitHeader
    \/ EmitDomain
    \/ Close
    \/ CloseFails
    \/ Rename
    \/ RenameFails

Next == NextFetch \/ NextWrite

\* The whole program.
Spec == Init /\ [][Next]_vars

\* The program up to the return of getBlocklistDomains, for more directives.
SpecFetch == InitConfigs /\ [][NextFetch]_vars

\* The whole program, for more hosts files.
SpecHosts == InitHosts /\ [][Next]_vars

\* Runs that write to the hosts file itself, to a link to it or to standard
\* output.
InitFaults ==
    InitOf({-1, 0, 1},
           { <<appendListDesc(block, 1, adsFilename)>>, <<appendListDesc(block, 2, listURL)>> },
           { oc \in OutputCases : oc.out = NoFile /\ oc.output # outFilename },
           HostsFiles, {adsInode}, {r \in Responses : ~r.err /\ r.status = "200"})

\* main from line 412 on, with writes that fail.
NextFault ==
    \/ CopyLineWriteFails
    \/ EmitHeaderWriteFails
    \/ EmitDomainWriteFails

\* The whole program on a file system whose writes can fail.
SpecFaults == InitFaults /\ [][Next \/ NextFault]_vars

\* Runs on a hosts file that an earlier run has written.
InitRewritten ==
    InitOf({-1, 0, 1},
           { <<appendListDesc(block, 1, adsFilename)>>, <<appendListDesc(block, 2, listURL)>> },
           { oc \in OutputCases : oc.link = NoFile /\ oc.out = NoFile },
           RewrittenHostsFiles(MaxHostsLines), {adsInode},
           {r \in Responses : ~r.err /\ r.status = "200"})

\* The whole program run a second time.
SpecRewritten == InitRewritten /\ [][Next]_vars

\* callConcurrently is entered: with no descriptor at all, or with the block
\* lists of at most MaxDescs directives and the hosts file.  The hosts file
\* and the remote list are empty when they can be read; the local list is
\* missing.
InitCall ==
    InitAt("makechan", Concurrencies,
           { <<>> } \cup { Append(c, hostsListDesc) :
                             c \in SeqsUpTo({ d \in Directives : d.allowBlock = block }, MaxDescs) },
           { oc \in OutputCases : oc.output = hostsFilename },
           { <<>> }, {NoFile},
           { NoResponse, [err |-> FALSE, status |-> "200", body |-> <<>>] })

\* The steps of the goroutine callConcurrently has started for worker w.
WorkerStep(w) ==
    \/ Acquire(w)
    \/ FetchLocal(w)
    \/ FetchRemote(w)
    \/ AppendDomains(w)
    \/ Done(w)
    \/ Release(w)

\* The steps of the goroutine that called callConcurrently.
CallerStep ==
    \/ MakeChans
    \/ MakeChanPanics
    \/ Spawn
    \/ Return
    \/ RuntimeDeadlock

NextCall == CallerStep \/ \E w \in Workers : WorkerStep(w)

\* The Go scheduler runs every goroutine that can take a step.
FairCall ==
    /\ WF_vars(CallerStep)
    /\ \A w \in Workers : WF_vars(WorkerStep(w))

\* One call of callConcurrently, scheduled fairly.
SpecCall == InitCall /\ [][NextCall]_vars /\ FairCall

\* ------------------------------------------------------------------ claims

IsRemote(desc) == Contains(desc.url, <<":", "/", "/">>)

\* The source of a descriptor can be read: the file exists, the GET yields 200.
Readable(desc) ==
    IF IsRemote(desc) THEN ~web.err /\ web.status = "200"
    ELSE startDir[desc.url] # NoFile

SourceBytes(desc) ==
    IF IsRemote(desc) THEN web.body ELSE startDisk[startDir[desc.url]]

\* The domains a descriptor's source holds for its field index and role.
SourceDomains(desc) ==
    scanDomains(ScanLines(SourceBytes(desc)), desc.fieldIndex, desc.allowBlock)

\* The descriptors of a role whose source can be read.
ReadableDescs(role) ==
    { k \in DOMAIN listDescs : listDescs[k].allowBlock = role /\ Readable(listDescs[k]) }

\* The tasks whose function is executing.
Executing == { w \in Workers : wpc[w] \in {"fcn", "append"} }

\* callConcurrently has returned with every task's function finished, each
\* called once.
AllTasksRan ==
    \A k \in 1..count : fcnCalls[k] = 1 /\ wpc[k] \in {"recv", "exit"}

\* The bytes written to the output so far.
OutputBytes == IF newHost = "stdout" THEN stdout ELSE disk[newHost]

\* The index of the first line that starts with the marker, or Len + 1.
MarkerAt(lines) ==
    IF \E k \in 1..Len(lines) : HasPrefix(lines[k], dnsholeMarkerLine)
    THEN CHOOSE k \in 1..Len(lines) :
            /\ HasPrefix(lines[k], dnsholeMarkerLine)
            /\ \A j \in 1..(k - 1) : ~HasPrefix(lines[j], dnsholeMarkerLine)
    ELSE Len(lines) + 1

\* The domains the output's generated section lists.
OutputBlockList ==
    LET lines == ScanLines(OutputBytes)
    IN  scanDomains(SubSeq(lines, MarkerAt(lines) + 1, Len(lines)), 1, block)

\* C1: every domain named after the address on a line of the hosts file
\* before the marker line is absent from the reconciled block list.
C1_HostsDomainsNeverBlocked ==
    pc = "main412" =>
        Range(scanDomains(ScanLines(startDisk[hostsInode]), 1, allow)) \cap Range(domains) = {}

\* C2: the reconciled block list holds exactly the domains of the block
\* lists that no allow list holds, in strictly ascending order (so without
\* duplicates).
C2_BlockMinusAllowSorted ==
    pc = "main412" =>
            /\ \A d \in Range(domains) :
                 /\ \E i \in DOMAIN blockDomainsList : d \in Range(blockDomainsList[i])
                 /\ \A i \in DOMAIN allowDomainsList : d \notin Range(allowDomainsList[i])
            /\ \A i \in DOMAIN blockDomainsList : \A d \in Range(blockDomainsList[i]) :
                 (\A j \in DOMAIN allowDomainsList : d \notin Range(allowDomainsList[j]))
                     => d \in Range(domains)
            /\ \A j, k \in 1..Len(domains) : j < k => StringLess(domains[j], domains[k])

\* A block list of two domains from which an allowed domain was left out.
C2_Witness ==
    /\ pc = "main412"
    /\ Len(domains) >= 2
    /\ DomainsOf(allowDomainsList) \cap DomainsOf(blockDomainsList) # {}

\* C3: for a limit of at least 1, at most concurrency task functions are
\* executing in any state.
C3_AtMostConcurrencyExecuting ==
    concurrency >= 1 => Cardinality(Executing) <= concurrency

\* As many tasks executing as the limit allows while another waits for a slot.
C3_Witness ==
    /\ concurrency >= 2
    /\ Cardinality(Executing) = concurrency
    /\ \E w \in Workers : wpc[w] = "send"

\* C4: no task function is called twice, and once callConcurrently has
\* returned (so whenever reconciliation has begun) every descriptor's task
\* function has been called once and has finished.
C4_ReturnsAfterEveryTask ==
    /\ \A k \in Workers : fcnCalls[k] <= 1
    /\ (closed \/ pc \in {"reconcile", "main412"}) => AllTasksRan

\* callConcurrently has returned from three tasks, one a failed GET.
C4_Witness ==
    /\ closed
    /\ count = 3
    /\ stderr # {}

\* C5: when callConcurrently returns, each list of lists holds one list per
\* readable source of its role, and every such source's domains are in it.
C5_EveryResultCollected ==
    pc = "reconcile" =>
        \A role \in {allow, block} :
            /\ Len(DomainsListOf(role)) = Cardinality(ReadableDescs(role))
            /\ \A k \in ReadableDescs(role) :
                 \E j \in DOMAIN DomainsListOf(role) :
                    DomainsListOf(role)[j] = SourceDomains(listDescs[k])

\* The block set the readable sources determine, whatever their order.
SourcesBlockSet ==
    UNION { Range(SourceDomains(listDescs[k])) : k \in ReadableDescs(block) }
        \ UNION { Range(SourceDomains(listDescs[k])) : k \in ReadableDescs(allow) }

\* C6: the reconciled block list is determined by the sources' contents
\* alone: it is the sorted block set of the readable sources in every run.
C6_OutputDeterminedBySources ==
    pc = "main412" =>
        domains = SortStrings(CHOOSE keys \in MapOrders(SourcesBlockSet) : TRUE)

FailedRemotes ==
    { k \in DOMAIN listDescs : IsRemote(listDescs[k]) /\ ~Readable(listDescs[k]) }

MissingLocal ==
    \E k \in DOMAIN listDescs :
        ~IsRemote(listDescs[k]) /\ startDir[listDescs[k].url] = NoFile

C8_LocalOpenFailureIsFatal ==
    /\ MissingLocal =>
          /\ ~closed
          /\ pc \in {"main408", "makechan", "call", "panic", "deadlock", "fatal_open"}
          /\ exitCode # "0"
    /\ pc = "fatal_open" =>
          /\ MissingLocal
          /\ exitCode = "1"
          /\ dir = startDir
          /\ disk = startDisk
          /\ stdout = <<>>
          /\ newHost = NoFile

\* A failed open has ended a run whose output file exists, while another
\* task was executing.
C8_Witness ==
    /\ pc = "fatal_open"
    /\ outputFilename = outFilename
    /\ dir[outFilename] = outInode
    /\ Executing # {}

\* The lines of data as separated by line feeds alone.
RECURSIVE SplitLF(_)
SplitLF(data) ==
    IF data = <<>> THEN <<>>
    ELSE LET i == Index(data, "\n")
         IN  IF i >= 0
             THEN <<SubSeq(data, 1, i)>> \o SplitLF(SubSeq(data, i + 2, Len(data)))
             ELSE <<data>>

\* The lines of the generated section for a block list.
GeneratedLines(timeStr, blockList) ==
    headerLines(timeStr)
        \o [k \in 1..Len(blockList) |-> <<"0",".","0",".","0",".","0"," ">> \o blockList[k]]

\* C9: the finished output is the hosts file's lines before its first marker
\* line, unchanged and in order, then at most one blank line, then the
\* generated section, and nothing else.
C9_PrefixPreserved ==
    pc \in {"rename", "exit"} =>
        LET input == SplitLF(startDisk[hostsInode])
            prefix == SubSeq(input, 1, MarkerAt(input) - 1)
        IN  \E timeStr \in Times :
               \/ SplitLF(OutputBytes) = prefix \o GeneratedLines(timeStr, domains)
               \/ SplitLF(OutputBytes) = prefix \o << <<>> >> \o GeneratedLines(timeStr, domains)

\* C10: after a run in same-file mode that exits with status 0, the hosts
\* file exists and holds the preserved lines and the generated section for
\* the block list, and the temporary file does not exist.
C10_SameFileRunReplacesHosts ==
    (exitCode = "0" /\ sameFileMode) =>
        /\ dir[hostsFilename] # NoFile
        /\ dir[tmpFilename] = NoFile
        /\ LET input == ScanLines(startDisk[hostsInode])
               prefix == SubSeq(input, 1, MarkerAt(input) - 1)
               now == ScanLines(disk[dir[hostsFilename]])
           IN  \E timeStr \in Times :
                  \/ now = prefix \o GeneratedLines(timeStr, domains)
                  \/ now = prefix \o << <<>> >> \o GeneratedLines(timeStr, domains)

\* The bytes of a file made of the given lines, each ended by a line feed.
BytesOfLines(lines) == Concat([k \in 1..Len(lines) |-> Fprintln(lines[k])])

\* bytes is a complete new hosts file for the run: the lines of the original
\* before its marker line, at most one blank line, the generated section.
CompleteArtifact(bytes) ==
    LET input == ScanLines(startDisk[hostsInode])
        prefix == SubSeq(input, 1, MarkerAt(input) - 1)
    IN  \E timeStr \in Times :
           \/ bytes = BytesOfLines(prefix \o GeneratedLines(timeStr, domains))
           \/ bytes = BytesOfLines(prefix \o << <<>> >> \o GeneratedLines(timeStr, domains))

\* C11: in same-file mode the hosts path names, in every state of the run
\* (so wherever a crash stops it), a file that holds either the original
\* bytes or a complete new hosts file; a rename of a file whose writes
\* failed would break this.
C11_NoPartialOutput ==
    sameFileMode =>
        /\ dir[hostsFilename] # NoFile
        /\ \/ disk[dir[hostsFilename]] = startDisk[hostsInode]
           \/ CompleteArtifact(disk[dir[hostsFilename]])

\* C12: a run whose rename of the temporary file has failed ends with a
\* non-zero exit status, and never with status 0.
C12_RenameFailureIsFatal ==
    renamed = "failed" => exitCode \notin {"running", "0"}

\* C13: with a concurrency of zero or less no worker goroutine is ever
\* started, and the run ends neither in the panic of make nor in the
\* runtime's deadlock report.
C13_NonPositiveConcurrencyRejected ==
    concurrency <= 0 =>
        /\ spawned = 0
        /\ pc \notin {"panic", "deadlock"}

\* The whitespace-separated tokens of the lines of bytes that come before
\* its first line starting with the marker.
TokensBeforeMarker(bytes) ==
    LET lines == ScanLines(bytes)
    IN  UNION { Range(Fields(lines[k])) : k \in 1..(MarkerAt(lines) - 1) }

\* The tokens before the marker of every readable Allow source.
AllowTokens ==
    UNION { TokensBeforeMarker(SourceBytes(listDescs[k])) : k \in ReadableDescs(allow) }

\* C14: when the tasks have all run, the allow lists collected from the
\* Allow sources (the hosts file among them) hold tokens of lines before the
\* source's marker line only; and a domain of a block list that is no such
\* token is in the reconciled block list, whether or not the hosts file's
\* generated section names it.
C14_AllowReadStopsAtMarker ==
    /\ pc = "reconcile" => DomainsOf(allowDomainsList) \subseteq AllowTokens
    /\ pc = "main412" =>
          /\ DomainsOf(allowDomainsList) \subseteq AllowTokens
          /\ \A d \in DomainsOf(blockDomainsList) : d \notin AllowTokens => d \in Range(domains)

\* The hosts file has a generated section whose lines name ab past the
\* address and the first name, ab is on a block list, and ab is blocked.
C14_Witness ==
    /\ pc = "main412"
    /\ startDisk[hostsInode] = hostsGenerated
    /\ <<"a", "b">> \in Range(scanDomainsAll(ScanLines(hostsGenerated), hostsFieldIndex, allow))
    /\ <<"a", "b">> \in Range(domains)

\* The block list the generated section of the hosts file names.
EarlierBlockList ==
    LET lines == ScanLines(startDisk[hostsInode])
    IN  scanDomains(SubSeq(lines, MarkerAt(lines) + 1, Len(lines)), 1, block)

\* How many of the lines start with the marker.
MarkerCount(lines) ==
    Cardinality({ k \in 1..Len(lines) : HasPrefix(lines[k], dnsholeMarkerLine) })

WorkersEnded == \A k \in 1..count : wpc[k] = "exit"

\* C16: once the deferred function has closed the channels, no goroutine is
\* at or before a send on semaphore or done; and with a concurrency of at
\* least 1 and every local source present (so every task function returns),
\* callConcurrently returns and every goroutine it started ends.
C16_DispatcherTerminates ==
    /\ [](closed => \A w \in Workers : wpc[w] \in {"none", "recv", "exit"})
    /\ (concurrency >= 1 /\ ~MissingLocal) ~> (closed /\ WorkersEnded)

\* callConcurrently has returned from as many tasks as the bound allows while
\* a goroutine has yet to receive from the closed semaphore and another has
\* ended.
C16_Witness ==
    /\ closed
    /\ concurrency >= 1
    /\ count = MaxDescs + 1
    /\ \E w \in Workers : wpc[w] = "recv"
    /\ \E w \in Workers : wpc[w] = "exit"

====
